---- MODULE Spec2Model ----
(***************************************************************************)
(* ArrayChunks<I, T, N>: an iterator adapter that groups the items of a    *)
(* source iterator into arrays of length N, buffering a partially filled   *)
(* group in buf[..num_init] (src/src/array_chunks_impl.rs).                *)
(*                                                                         *)
(* Two adapter objects are modelled: "orig", made by new(), and "copy",    *)
(* made by orig.clone().  Sequences are 1-based here: slot index i of the  *)
(* model is buf[i-1] of the source, and a source position p means that     *)
(* p-1 script items have been consumed.                                    *)
(***************************************************************************)
EXTENDS Integers, Sequences, FiniteSets, TLC

\* ------------------------------------------------------------- bounds
MaxN == 3
MaxLen == 4
MaxEmptyChunks == 2

\* ------------------------------------------------------- source iterator
\* What one call of self.iter.next() can do: yield Some(v), yield None, or
\* unwind with a panic.  The items of a source are pairwise distinct: the
\* item yielded by the p-th call is p, so that a lost, repeated or misplaced
\* item always shows.
SomeItem == 1
NoneItem == 0
PanicItem == -1

Events == {SomeItem, NoneItem, PanicItem}

RECURSIVE SeqsUpTo(_, _)
SeqsUpTo(S, n) ==
    IF n = 0 THEN {<<>>}
    ELSE LET shorter == SeqsUpTo(S, n - 1)
         IN  shorter \cup {Append(s, e) : s \in {t \in shorter : Len(t) = n - 1}, e \in S}

Scripts == SeqsUpTo(Events, MaxLen)

\* self.iter.next() on a source that replays script s and stands at position p.
\* Past the end of the script the source answers None for ever.
IterNext(s, p) ==
    IF p > Len(s) THEN [kind |-> "none", val |-> 0, pos |-> p]
    ELSE IF s[p] = PanicItem THEN [kind |-> "panic", val |-> 0, pos |-> p + 1]
    ELSE IF s[p] = NoneItem THEN [kind |-> "none", val |-> 0, pos |-> p + 1]
    ELSE [kind |-> "some", val |-> p, pos |-> p + 1]

\* The largest usize (of a target with 16-bit pointers).
UsizeMax == 65535

\* An absent upper bound (Option::None) in a size hint.
NoHint == -1

\* The number of items the source will still yield from position p.
RECURSIVE Remaining(_, _)
Remaining(s, p) ==
    IF p > Len(s) THEN 0
    ELSE (IF s[p] = SomeItem THEN 1 ELSE 0) + Remaining(s, p + 1)

\* self.iter.size_hint(): the source may report the exact number of items
\* left, or give no information (0, None).
IterSizeHints(s, p) ==
    {<<Remaining(s, p), Remaining(s, p)>>, <<0, NoHint>>}

\* self.iter.size_hint() of an arbitrary source: any bounds, right or wrong,
\* small or at the edge of usize.
HintInputs ==
    {<<lo, hi>> : lo \in {0, 1, 2, UsizeMax - 1, UsizeMax},
                  hi \in {NoHint, 0, 1, 3, UsizeMax - 1, UsizeMax}}

\* ------------------------------------------------------- buffer slots
\* A slot of [MaybeUninit<T>; N]: the bits it holds, and whether those bits
\* are a live T owned by the buffer.
Uninit == [val |-> 0, init |-> FALSE]

MaybeUninitNew(v) == [val |-> v, init |-> TRUE]

uninit_array(n) == [i \in 1..n |-> Uninit]

\* Reading slot i of b as a T: its bits, and whether the read was of a slot
\* that holds no live value.
Vals(b, idx) == [i \in idx |-> b[i].val]
Dead(b, idx) == \E i \in idx : ~b[i].init

\* (mutant) the whole buffer instead of its initialised prefix
InitRangeAll(b, k) == 1..Len(b)

\* (mutant) the last initialised slot is left out
InitRangeShort(b, k) == 1..(k - 1)

\* &self.buf[..self.num_init]
InitRange(b, k) == 1..k

\* MaybeUninit::slice_assume_init_ref(&self.buf[..self.num_init])
remainder(b, k) ==
    [slice |-> Vals(b, InitRange(b, k)), bad |-> Dead(b, InitRange(b, k))]

\* ------------------------------------------------------------- next
\* *slot = MaybeUninit::new(v): the old contents of the slot are overwritten,
\* not dropped.
\* (mutant) every value is written to the first slot of the buffer
SlotWriteFirst(b, i, v) == [b EXCEPT ![1] = MaybeUninitNew(v)]

SlotWrite(b, i, v) == [b EXCEPT ![i] = MaybeUninitNew(v)]

\* (mutant) the increment is forgotten
IncInitNot(k) == k

\* self.num_init += 1
IncInit(k) == k + 1

\* (mutant) num_init is incremented before the source is asked, so that a
\* pull that yields no value leaves it one too high
RECURSIVE FillLoopEager(_, _, _, _, _, _)
FillLoopEager(s, p, b, i, k, got) ==
    IF i > Len(b)
    THEN [res |-> "full", pos |-> p, buf |-> b, num_init |-> k, got |-> got]
    ELSE LET r == IterNext(s, p)
         IN  IF r.kind = "some"
             THEN FillLoopEager(s, r.pos, SlotWrite(b, i, r.val), i + 1,
                                IncInit(k), Append(got, r.val))
             ELSE [res |-> r.kind, pos |-> r.pos, buf |-> b,
                   num_init |-> IncInit(k), got |-> got]

\* (mutant) a None from the source forgets the partially filled group
RECURSIVE FillLoopClear(_, _, _, _, _, _)
FillLoopClear(s, p, b, i, k, got) ==
    IF i > Len(b)
    THEN [res |-> "full", pos |-> p, buf |-> b, num_init |-> k, got |-> got]
    ELSE LET r == IterNext(s, p)
         IN  IF r.kind = "some"
             THEN FillLoopClear(s, r.pos, SlotWrite(b, i, r.val), i + 1,
                                IncInit(k), Append(got, r.val))
             ELSE IF r.kind = "none"
             THEN [res |-> r.kind, pos |-> r.pos,
                   buf |-> [j \in 1..Len(b) |-> [val |-> b[j].val, init |-> FALSE]],
                   num_init |-> 0, got |-> got]
             ELSE [res |-> r.kind, pos |-> r.pos, buf |-> b, num_init |-> k,
                   got |-> got]

\* (mutant) the source is asked before the loop condition is tested, so that a
\* value is pulled ahead of a full buffer and lost
RECURSIVE FillLoopPullFirst(_, _, _, _, _, _)
FillLoopPullFirst(s, p, b, i, k, got) ==
    LET r == IterNext(s, p)
    IN  IF r.kind # "some"
        THEN [res |-> r.kind, pos |-> r.pos, buf |-> b, num_init |-> k,
              got |-> got]
        ELSE IF i > Len(b)
        THEN [res |-> "full", pos |-> r.pos, buf |-> b, num_init |-> k,
              got |-> got]
        ELSE FillLoopPullFirst(s, r.pos, SlotWrite(b, i, r.val), i + 1,
                               IncInit(k), Append(got, r.val))

\* The for loop of next(): slot index i runs over the slots of buf[num_init..],
\* k is self.num_init, got the values pulled so far by this call.
RECURSIVE FillLoop(_, _, _, _, _, _)
FillLoop(s, p, b, i, k, got) ==
    IF i > Len(b)
    THEN [res |-> "full", pos |-> p, buf |-> b, num_init |-> k, got |-> got]
    ELSE LET r == IterNext(s, p)
         IN  IF r.kind = "some"
             THEN FillLoop(s, r.pos, SlotWrite(b, i, r.val), i + 1, IncInit(k),
                           Append(got, r.val))
             ELSE [res |-> r.kind, pos |-> r.pos, buf |-> b, num_init |-> k,
                   got |-> got]

\* core::ptr::read(&self.buf) followed by array_assume_init: every slot is
\* read as a T and the values now belong to the returned array.
ReadChunk(b) ==
    [chunk |-> Vals(b, 1..Len(b)),
     bad   |-> Dead(b, 1..Len(b)),
     buf   |-> [i \in 1..Len(b) |-> [val |-> b[i].val, init |-> FALSE]]]

\* (mutant) the reset is forgotten
ResetInitNot(k) == k

\* self.num_init = 0
ResetInit(k) == 0

\* (mutant) a buffer without slots is treated as an exhausted source
nextNoneOnEmpty(s, p, b, k) ==
    LET f == FillLoop(s, p, b, k + 1, k, <<>>)
        c == ReadChunk(f.buf)
    IN  IF f.res = "full" /\ Len(b) > 0
        THEN [res |-> "some", chunk |-> c.chunk, bad |-> c.bad, pos |-> f.pos,
              buf |-> c.buf, num_init |-> ResetInit(f.num_init), got |-> f.got]
        ELSE [res |-> IF f.res = "full" THEN "none" ELSE f.res, chunk |-> <<>>,
              bad |-> FALSE, pos |-> f.pos, buf |-> f.buf,
              num_init |-> f.num_init, got |-> f.got]

\* Iterator::next for ArrayChunks.
next(s, p, b, k) ==
    LET f == FillLoop(s, p, b, k + 1, k, <<>>)
        c == ReadChunk(f.buf)
    IN  IF f.res = "full"
        THEN [res |-> "some", chunk |-> c.chunk, bad |-> c.bad, pos |-> f.pos,
              buf |-> c.buf, num_init |-> ResetInit(f.num_init), got |-> f.got]
        ELSE [res |-> f.res, chunk |-> <<>>, bad |-> FALSE, pos |-> f.pos,
              buf |-> f.buf, num_init |-> f.num_init, got |-> f.got]

\* --------------------------------------------------------- size_hint
\* (mutant) the addition wraps around
wrapping_add(a, b) == (a + b) % (UsizeMax + 1)

\* usize::saturating_add
saturating_add(a, b) == IF a + b > UsizeMax THEN UsizeMax ELSE a + b

\* usize::checked_add, NoHint for None
checked_add(a, b) == IF a + b > UsizeMax THEN NoHint ELSE a + b

\* (mutant) the buffered values are left out of the estimate
SizeHintNoBuf(h, k, n) ==
    IF n = 0 THEN [res |-> "panic", val |-> <<>>]
    ELSE [res |-> "ok",
          val |-> <<h[1] \div n, IF h[2] = NoHint THEN NoHint ELSE h[2] \div n>>]

\* Iterator::size_hint for ArrayChunks, given the source's hint h = <<lo, hi>>.
\* Division by N = 0 panics.
size_hint(h, k, n) ==
    IF n = 0 THEN [res |-> "panic", val |-> <<>>]
    ELSE [res |-> "ok",
          val |-> <<saturating_add(h[1], k) \div n,
                    IF h[2] = NoHint THEN NoHint
                    ELSE IF checked_add(h[2], k) = NoHint THEN NoHint
                    ELSE checked_add(h[2], k) \div n>>]

\* ------------------------------------------------------------- clone
\* self.buf.iter().zip(&mut buf).take(self.num_init)
CloneRange(b, k) == 1..(IF k < Len(b) THEN k ELSE Len(b))

\* (mutant) the clone's buffer is a bitwise copy of the original's
CloneBufBitwise(b, k) == b

\* The buffer of the clone: a fresh uninit_array with the first num_init slots
\* set to clones of the original's.
CloneBuf(b, k) ==
    [i \in 1..Len(b) |->
        IF i \in CloneRange(b, k) THEN MaybeUninitNew(b[i].val) ELSE Uninit]

\* (mutant) the clone gets a source that starts over
CloneIterRestart(p) == 1

\* iter: self.iter.clone()
CloneIter(p) == p

\* num_init: self.num_init
CloneInit(k) == k

\* ------------------------------------------------------------- drop
\* (mutant) every slot of the buffer is dropped
DropRangeAll(b, k) == 1..Len(b)

\* &mut self.buf[..self.num_init]
DropRange(b, k) == 1..k

\* Drop::drop: assume_init_drop on every slot of the range, in slot order.
drop(b, k) ==
    [released |-> Vals(b, DropRange(b, k)),
     touched  |-> DropRange(b, k),
     bad      |-> Dead(b, DropRange(b, k)),
     buf      |-> [i \in 1..Len(b) |->
                     IF i \in DropRange(b, k)
                     THEN [val |-> b[i].val, init |-> FALSE] ELSE b[i]]]

\* ------------------------------------------------------------- state
Ids == {"orig", "copy"}

VARIABLES
    N,          \* the const generic N
    script,     \* what the source iterator does, call by call
    life,       \* per object: "none" (not made), "live", "dropped"
    iter,       \* per object: position of its source iterator
    buf,        \* per object: the slots
    num_init,   \* per object: self.num_init
    out,        \* per object: the chunks next() has returned
    taken,      \* per object: the values that came into its buffer
    released,   \* per object: the values drop() has released
    touched,    \* per object: the slots drop() has handled
    fault,      \* per object: some operation read or released a dead slot
    exhausted,  \* per object: next() has returned None
    born,       \* chunks the original had returned when the copy was made
    last        \* the operation that ran last and what it returned

vars == <<N, script, life, iter, buf, num_init, out, taken, released, touched,
          fault, exhausted, born, last>>

\* ArrayChunks::new(iter), for every N and every source.
new(n) == [iter |-> 1, buf |-> uninit_array(n), num_init |-> 0]

Init ==
    /\ N \in 0..MaxN
    /\ script \in Scripts
    /\ life = [x \in Ids |-> IF x = "orig" THEN "live" ELSE "none"]
    /\ iter = [x \in Ids |-> new(N).iter]
    /\ buf = [x \in Ids |-> new(N).buf]
    /\ num_init = [x \in Ids |-> new(N).num_init]
    /\ out = [x \in Ids |-> <<>>]
    /\ taken = [x \in Ids |-> <<>>]
    /\ released = [x \in Ids |-> <<>>]
    /\ touched = [x \in Ids |-> {}]
    /\ fault = [x \in Ids |-> FALSE]
    /\ exhausted = [x \in Ids |-> FALSE]
    /\ born = 0
    /\ last = [op |-> "new", id |-> "orig", res |-> "ok", val |-> <<>>]

\* x.next()
DoNext(x) ==
    /\ life[x] = "live"
    /\ N = 0 => Len(out[x]) < MaxEmptyChunks
    /\ LET r == next(script, iter[x], buf[x], num_init[x])
       IN  /\ iter' = [iter EXCEPT ![x] = r.pos]
           /\ buf' = [buf EXCEPT ![x] = r.buf]
           /\ num_init' = [num_init EXCEPT ![x] = r.num_init]
           /\ out' = [out EXCEPT ![x] =
                        IF r.res = "some" THEN Append(@, r.chunk) ELSE @]
           /\ taken' = [taken EXCEPT ![x] = @ \o r.got]
           /\ fault' = [fault EXCEPT ![x] = @ \/ r.bad]
           /\ exhausted' = [exhausted EXCEPT ![x] = @ \/ r.res = "none"]
           /\ last' = [op |-> "next", id |-> x, res |-> r.res, val |-> r.chunk]
    /\ UNCHANGED <<N, script, life, released, touched, born>>

\* x.remainder()
DoRemainder(x) ==
    /\ life[x] = "live"
    /\ LET r == remainder(buf[x], num_init[x])
       IN  /\ fault' = [fault EXCEPT ![x] = @ \/ r.bad]
           /\ last' = [op |-> "remainder", id |-> x, res |-> "ok", val |-> r.slice]
    /\ UNCHANGED <<N, script, life, iter, buf, num_init, out, taken, released,
                   touched, exhausted, born>>

\* x.size_hint(), the source reporting the bounds h
DoSizeHintWith(x, h) ==
    /\ life[x] = "live"
    /\ LET r == size_hint(h, num_init[x], N)
       IN  last' = [op |-> "size_hint", id |-> x, res |-> r.res, val |-> r.val,
                    arg |-> h]
    /\ UNCHANGED <<N, script, life, iter, buf, num_init, out, taken, released,
                   touched, fault, exhausted, born>>

\* x.size_hint()
DoSizeHint(x) == \E h \in IterSizeHints(script, iter[x]) : DoSizeHintWith(x, h)

\* copy = orig.clone()
DoClone ==
    /\ life["orig"] = "live"
    /\ life["copy"] = "none"
    /\ life' = [life EXCEPT !["copy"] = "live"]
    /\ iter' = [iter EXCEPT !["copy"] = CloneIter(iter["orig"])]
    /\ buf' = [buf EXCEPT !["copy"] = CloneBuf(buf["orig"], num_init["orig"])]
    /\ num_init' = [num_init EXCEPT !["copy"] = CloneInit(num_init["orig"])]
    /\ taken' = [taken EXCEPT !["copy"] =
                    Vals(buf["orig"], CloneRange(buf["orig"], num_init["orig"]))]
    /\ fault' = [fault EXCEPT !["orig"] =
                    @ \/ Dead(buf["orig"], CloneRange(buf["orig"], num_init["orig"]))]
    /\ exhausted' = [exhausted EXCEPT !["copy"] = exhausted["orig"]]
    /\ born' = Len(out["orig"])
    /\ last' = [op |-> "clone", id |-> "copy", res |-> "ok", val |-> <<>>]
    /\ UNCHANGED <<N, script, out, released, touched>>

\* x goes out of scope
DoDrop(x) ==
    /\ life[x] = "live"
    /\ LET r == drop(buf[x], num_init[x])
       IN  /\ life' = [life EXCEPT ![x] = "dropped"]
           /\ buf' = [buf EXCEPT ![x] = r.buf]
           /\ released' = [released EXCEPT ![x] = r.released]
           /\ touched' = [touched EXCEPT ![x] = r.touched]
           /\ fault' = [fault EXCEPT ![x] = @ \/ r.bad]
           /\ last' = [op |-> "drop", id |-> x, res |-> "ok", val |-> r.released]
    /\ UNCHANGED <<N, script, iter, num_init, out, taken, exhausted, born>>

Next ==
    \/ \E x \in Ids : DoNext(x)
    \/ \E x \in Ids : DoRemainder(x)
    \/ \E x \in Ids : DoSizeHint(x)
    \/ DoClone
    \/ \E x \in Ids : DoDrop(x)

Spec == Init /\ [][Next]_vars

\* The adapter made by new() over a source whose size_hint() may report any
\* bounds: next() and size_hint() only.
HintNext ==
    \/ DoNext("orig")
    \/ \E h \in HintInputs : DoSizeHintWith("orig", h)

SpecHint == Init /\ [][HintNext]_vars

\* ------------------------------------------------------- observations
RECURSIVE Flatten(_)
Flatten(chunks) ==
    IF chunks = <<>> THEN <<>> ELSE Head(chunks) \o Flatten(Tail(chunks))

\* What x.remainder() returns in the current state.
Rem(x) == remainder(buf[x], num_init[x]).slice

\* The slots of x that hold a live value.
LiveSlots(x) == {i \in 1..Len(buf[x]) : buf[x][i].init}

\* The source is a finite sequence: it yields Len(script) items and then None.
Finite == \A i \in 1..Len(script) : script[i] = SomeItem

\* The items of a finite source, in order.
Stream == [i \in 1..Len(script) |-> i]

NoDup(s) == \A i, j \in 1..Len(s) : s[i] = s[j] => i = j

\* C1: for N >= 1 and a finite source, once next() has returned None the
\* chunks returned so far, concatenated in order, followed by remainder(),
\* are the source's items exactly, in order, none skipped or repeated.
C1_NoLossNoDup ==
    (N >= 1 /\ Finite /\ life["orig"] = "live" /\ exhausted["orig"])
        => /\ Flatten(out["orig"]) \o Rem("orig") = Stream
           /\ NoDup(Flatten(out["orig"]) \o Rem("orig"))

C1_Witness ==
    /\ N = 2 /\ Finite /\ Len(script) = 3
    /\ exhausted["orig"]
    /\ out["orig"] = << <<1, 2>> >>
    /\ last = [op |-> "remainder", id |-> "orig", res |-> "ok", val |-> <<3>>]

\* C2: for N >= 1 and a finite source of Q*N + R items (0 <= R < N), exactly
\* Q chunks have been returned when next() first returns None, and remainder()
\* then has length R and holds the last R items in order.
C2_CountAndRemainder ==
    (N >= 1 /\ Finite /\ life["orig"] = "live" /\ exhausted["orig"])
        => LET L == Len(script)
               Q == L \div N
               R == L % N
           IN  /\ Len(out["orig"]) = Q
               /\ \A j \in 1..Q : Len(out["orig"][j]) = N
               /\ Len(Rem("orig")) = R
               /\ Rem("orig") = SubSeq(Stream, L - R + 1, L)

C2_Witness ==
    /\ N = 1 /\ Finite /\ Len(script) = 4
    /\ last = [op |-> "next", id |-> "orig", res |-> "none", val |-> <<>>]
    /\ Len(out["orig"]) = 4
    /\ Rem("orig") = <<>>

\* C3: in every state in which control is with the caller, every live object
\* has 0 <= num_init <= N, exactly the slots 1..num_init hold live values, and
\* no operation so far has read or released a slot that held no live value.
C3_CentralInvariant ==
    \A x \in Ids :
        /\ fault[x] = FALSE
        /\ life[x] = "live" =>
              /\ num_init[x] \in 0..N
              /\ Len(buf[x]) = N
              /\ LiveSlots(x) = 1..num_init[x]

C3_Witness ==
    /\ N = 3
    /\ life["copy"] = "dropped" /\ released["copy"] = <<1>>
    /\ life["orig"] = "live" /\ num_init["orig"] = 2
    /\ last = [op |-> "remainder", id |-> "orig", res |-> "ok", val |-> <<1, 3>>]

\* C4: a dropped object that had num_init = M released exactly the M values
\* of slots 1..M, each once, and handled no other slot; what it released is
\* what came into its buffer and was not returned in a chunk.
C4_DropReleasesPrefix ==
    \A x \in Ids :
        life[x] = "dropped" =>
            /\ touched[x] = 1..num_init[x]
            /\ Len(released[x]) = num_init[x]
            /\ NoDup(released[x])
            /\ taken[x] = Flatten(out[x]) \o released[x]
            /\ LiveSlots(x) = {}
            /\ ~fault[x]
            /\ num_init[x] = 0 => released[x] = <<>>

C4_Witness ==
    /\ N = 3
    /\ life["orig"] = "dropped"
    /\ out["orig"] = << <<1, 2, 3>> >>
    /\ released["orig"] = <<4>>
    /\ touched["orig"] = {1}

\* C5: right after a next() that returned a chunk, num_init is 0, remainder()
\* is empty and no slot is live; a drop that follows releases nothing and a
\* clone that follows copies nothing, so no value of the chunk is owned twice.
C5_ChunkMovedOut ==
    /\ [](\A x \in Ids :
            (last.op = "next" /\ last.id = x /\ last.res = "some") =>
                /\ num_init[x] = 0
                /\ Rem(x) = <<>>
                /\ LiveSlots(x) = {}
                /\ Len(last.val) = N)
    /\ [][\A x \in Ids :
            (last.op = "next" /\ last.id = x /\ last.res = "some") =>
                /\ (last'.op = "drop" /\ last'.id = x) =>
                      released'[x] = <<>> /\ touched'[x] = {}
                /\ last'.op = "clone" =>
                      /\ num_init'["copy"] = 0
                      /\ LiveSlots("copy")' = {}
                      /\ taken'["copy"] = <<>>]_vars

C5_Witness ==
    /\ N = 2
    /\ out["orig"] = << <<1, 2>>, <<3, 4>> >>
    /\ life["orig"] = "dropped"
    /\ last = [op |-> "drop", id |-> "orig", res |-> "ok", val |-> <<>>]

\* The other object.
Other(x) == IF x = "orig" THEN "copy" ELSE "orig"

\* The source of x has panicked in some next() of x (or of the object x was
\* cloned from).
Panicked(x) == \E p \in 1..(iter[x] - 1) : p <= Len(script) /\ script[p] = PanicItem

\* C6: when the source panics in next() with k values of the group stored, the
\* panic is what next() ends with, num_init is the number of values stored,
\* slots 1..num_init are live and hold the values stored before plus those
\* pulled by this call, and no value is lost or released twice: what came into
\* the buffer is what was returned in chunks plus what is buffered (or, after
\* drop, what was released); no later operation touches a dead slot.
C6_PanicKeepsPrefix ==
    /\ [](\A x \in Ids :
            Panicked(x) =>
                /\ ~fault[x]
                /\ life[x] = "live" =>
                      /\ LiveSlots(x) = 1..num_init[x]
                      /\ taken[x] = Flatten(out[x]) \o Rem(x)
                /\ life[x] = "dropped" =>
                      /\ taken[x] = Flatten(out[x]) \o released[x]
                      /\ NoDup(released[x]))
    /\ [][\A x \in Ids :
            (last'.op = "next" /\ last'.id = x /\ life[x] = "live") =>
                LET n == Len(taken'[x]) - Len(taken[x])
                    gone == IterNext(script, iter'[x] - 1).kind = "panic"
                IN  /\ last'.res = "panic" <=> (N >= 1 /\ iter'[x] > iter[x] /\ gone)
                    /\ last'.res = "panic" =>
                          /\ num_init'[x] = num_init[x] + n
                          /\ num_init'[x] < N
                          /\ Rem(x)' = Rem(x) \o SubSeq(taken'[x], Len(taken[x]) + 1,
                                                       Len(taken'[x]))
                          /\ out'[x] = out[x]]_vars

C6_Witness ==
    /\ N = 3
    /\ script = <<SomeItem, SomeItem, PanicItem, SomeItem>>
    /\ life["orig"] = "dropped"
    /\ out["orig"] = << <<1, 2, 4>> >>
    /\ life["copy"] = "live"
    /\ last = [op |-> "remainder", id |-> "copy", res |-> "ok", val |-> <<1, 2>>]

\* C7: orig.clone() at num_init = M makes an object with num_init = M, whose
\* slots 1..M hold live values equal to the original's, in order, whose slots
\* M+1..N are empty, and whose source stands where the original's stands; the
\* original's num_init, slots and source are as before.
C7_CloneCopiesPrefix ==
    [][(last'.op = "clone" /\ life["copy"] = "none") =>
          LET M == num_init["orig"]
          IN  /\ life'["copy"] = "live"
              /\ num_init'["copy"] = M
              /\ Len(buf'["copy"]) = N
              /\ \A i \in 1..N :
                    buf'["copy"][i] =
                        IF i <= M THEN [val |-> buf["orig"][i].val, init |-> TRUE]
                        ELSE Uninit
              /\ Rem("copy")' = Rem("orig")
              /\ iter'["copy"] = iter["orig"]
              /\ num_init'["orig"] = M
              /\ buf'["orig"] = buf["orig"]
              /\ iter'["orig"] = iter["orig"]
              /\ life'["orig"] = life["orig"]
              /\ ~fault'["orig"] /\ ~fault'["copy"]]_vars

C7_Witness ==
    /\ N = 3
    /\ last.op = "clone"
    /\ buf["orig"] = <<[val |-> 4, init |-> TRUE], [val |-> 2, init |-> FALSE],
                       [val |-> 3, init |-> FALSE]>>
    /\ buf["copy"] = <<[val |-> 4, init |-> TRUE], Uninit, Uninit>>
    /\ iter["copy"] = 5

\* The chunks a finite source is cut into, for N >= 1.
Chunks ==
    [j \in 1..(Len(script) \div N) |-> SubSeq(Stream, (j - 1) * N + 1, j * N)]

\* What the object has returned and buffers is what the original alone would
\* have, from the chunk it started at.
AsAlone(x, first) ==
    /\ first + Len(out[x]) <= Len(Chunks)
    /\ out[x] = SubSeq(Chunks, first + 1, first + Len(out[x]))
    /\ (life[x] = "live" /\ exhausted[x]) =>
          /\ first + Len(out[x]) = Len(Chunks)
          /\ Rem(x) = SubSeq(Stream, Len(Chunks) * N + 1, Len(script))

\* C8: after a clone, an operation on one object leaves the other's num_init,
\* slots, source position, returned chunks and life as they were, and, for a
\* finite source and N >= 1, each of the two returns the chunks and ends with
\* the remainder that the original alone would have.
C8_CloneIndependent ==
    /\ []((N >= 1 /\ Finite) =>
            /\ AsAlone("orig", 0)
            /\ life["copy"] # "none" => AsAlone("copy", born))
    /\ [][\A x \in Ids :
            (last'.id = x /\ last'.op # "clone") =>
                /\ iter'[Other(x)] = iter[Other(x)]
                /\ buf'[Other(x)] = buf[Other(x)]
                /\ num_init'[Other(x)] = num_init[Other(x)]
                /\ out'[Other(x)] = out[Other(x)]
                /\ life'[Other(x)] = life[Other(x)]]_vars

C8_Witness ==
    /\ N = 1 /\ Finite /\ Len(script) = 4
    /\ born = 1
    /\ life["orig"] = "dropped" /\ out["orig"] = << <<1>>, <<2>> >>
    /\ life["copy"] = "live" /\ exhausted["copy"]
    /\ out["copy"] = << <<2>>, <<3>>, <<4>> >>
    /\ last = [op |-> "remainder", id |-> "copy", res |-> "ok", val |-> <<>>]

\* C9: as long as next() of a live object has not returned None, remainder()
\* of that object is empty.
C9_RemainderEmptyUntilExhausted ==
    \A x \in Ids : (life[x] = "live" /\ ~exhausted[x]) => Rem(x) = <<>>

\* C10: a next() that returns None leaves num_init < N, with the values it
\* pulled before the None appended to the buffered ones and nothing else
\* changed; and a next() whose first pull is answered None, with fewer than N
\* values buffered, returns None and leaves num_init, the slots, remainder()
\* and the chunks returned as they were, however often that happens.
C10_ExhaustionStable ==
    /\ [](\A x \in Ids :
            (last.op = "next" /\ last.id = x /\ last.res = "none") =>
                /\ num_init[x] < N
                /\ exhausted[x]
                /\ LiveSlots(x) = 1..num_init[x])
    /\ [][\A x \in Ids :
            (last'.op = "next" /\ last'.id = x /\ life[x] = "live"
             /\ last'.res = "none") =>
                /\ num_init'[x] = num_init[x] + Len(taken'[x]) - Len(taken[x])
                /\ Rem(x)' = Rem(x) \o SubSeq(taken'[x], Len(taken[x]) + 1,
                                             Len(taken'[x]))
                /\ out'[x] = out[x]
                /\ \/ iter'[x] > Len(script)
                   \/ iter'[x] > 1 /\ script[iter'[x] - 1] = NoneItem]_vars
    /\ [][\A x \in Ids :
            (/\ last'.op = "next" /\ last'.id = x /\ life[x] = "live"
             /\ num_init[x] < N
             /\ IterNext(script, iter[x]).kind = "none") =>
                /\ last'.res = "none"
                /\ num_init'[x] = num_init[x]
                /\ buf'[x] = buf[x]
                /\ Rem(x)' = Rem(x)
                /\ out'[x] = out[x]
                /\ taken'[x] = taken[x]]_vars

C10_Witness ==
    /\ N = 3
    /\ script = <<SomeItem, SomeItem, NoneItem, NoneItem>>
    /\ iter["orig"] = 5
    /\ last = [op |-> "next", id |-> "orig", res |-> "none", val |-> <<>>]
    /\ Rem("orig") = <<1, 2>>

\* C11: with N = 0 every next() returns an empty chunk, never None, asks the
\* source for nothing (its position stays where it was) and leaves num_init 0.
C11_ZeroN ==
    /\ [](N = 0 =>
            \A x \in Ids :
                /\ iter[x] = 1
                /\ num_init[x] = 0
                /\ taken[x] = <<>>
                /\ ~exhausted[x]
                /\ \A j \in 1..Len(out[x]) : out[x][j] = <<>>)
    /\ [][\A x \in Ids :
            (N = 0 /\ last'.op = "next" /\ last'.id = x) =>
                /\ last'.res = "some" /\ last'.val = <<>>
                /\ out'[x] = Append(out[x], <<>>)
                /\ iter'[x] = iter[x]]_vars

C11_Witness ==
    /\ N = 0
    /\ script = <<SomeItem, SomeItem>>
    /\ out["orig"] = << <<>>, <<>> >>
    /\ iter["orig"] = 1
    /\ last = [op |-> "next", id |-> "orig", res |-> "some", val |-> <<>>]

\* C12: no operation of the adapter fails by itself: an operation ends in a
\* panic only when it is a next() in which the source panicked.
C12_NoOwnFailure ==
    last.res = "panic" =>
        /\ last.op = "next"
        /\ iter[last.id] > 1
        /\ script[iter[last.id] - 1] = PanicItem

Min(a, b) == IF a < b THEN a ELSE b

\* C13: for N >= 1, a source reporting (lo, hi) and num_init = f, size_hint()
\* returns the lower bound min(lo + f, usize::MAX) div N and the upper bound
\* (hi + f) div N when hi is present and hi + f <= usize::MAX, otherwise no
\* upper bound; it changes neither num_init, nor the slots, nor the source.
C13_SizeHintArithmetic ==
    /\ []((last.op = "size_hint" /\ N >= 1) =>
            LET lo == last.arg[1]
                hi == last.arg[2]
                f  == num_init[last.id]
            IN  /\ last.res = "ok"
                /\ last.val[1] = Min(lo + f, UsizeMax) \div N
                /\ last.val[1] \in 0..UsizeMax
                /\ last.val[2] = IF hi # NoHint /\ hi + f <= UsizeMax
                                 THEN (hi + f) \div N ELSE NoHint)
    /\ [][last'.op = "size_hint" =>
            /\ num_init' = num_init
            /\ buf' = buf
            /\ iter' = iter
            /\ out' = out]_vars

C13_Witness ==
    /\ N = 3
    /\ num_init["orig"] = 2
    /\ last = [op |-> "size_hint", id |-> "orig", res |-> "ok",
               val |-> <<21845, NoHint>>, arg |-> <<UsizeMax, UsizeMax>>]

\* The chunks that next() still returns when it is called, from a state with
\* source position p, slots b and num_init k, until the source has finished
\* (for N >= 1).
RECURSIVE FutureChunks(_, _, _, _)
FutureChunks(s, p, b, k) ==
    LET r == next(s, p, b, k)
    IN  IF r.res = "some" THEN 1 + FutureChunks(s, r.pos, r.buf, r.num_init)
        ELSE IF r.pos > Len(s) THEN 0
        ELSE FutureChunks(s, r.pos, r.buf, r.num_init)

\* The bounds h are right for a source that replays s and stands at p.
HintRight(h, s, p) ==
    /\ h[1] <= Remaining(s, p)
    /\ h[2] = NoHint \/ Remaining(s, p) <= h[2]

\* The same two, counting only up to the first None: the items the source
\* yields before its next None, and the chunks next() returns before it next
\* returns None.
RECURSIVE Ahead(_, _)
Ahead(s, p) ==
    IF p > Len(s) \/ s[p] = NoneItem THEN 0
    ELSE (IF s[p] = SomeItem THEN 1 ELSE 0) + Ahead(s, p + 1)

RECURSIVE ChunksAhead(_, _, _, _)
ChunksAhead(s, p, b, k) ==
    LET r == next(s, p, b, k)
    IN  IF r.res = "some" THEN 1 + ChunksAhead(s, r.pos, r.buf, r.num_init)
        ELSE IF r.res = "none" THEN 0
        ELSE ChunksAhead(s, r.pos, r.buf, r.num_init)

\* C14: for N >= 1, when the bounds the source reports are right, the number
\* of chunks that next() still returns is at least the lower bound of
\* size_hint() and, when there is an upper bound, at most that; whether items
\* and chunks are counted until the source has finished or until the next None.
C14_SizeHintSound ==
    (last.op = "size_hint" /\ N >= 1) =>
        LET x == last.id
            h == last.arg
            more == FutureChunks(script, iter[x], buf[x], num_init[x])
            near == ChunksAhead(script, iter[x], buf[x], num_init[x])
        IN  /\ last.res = "ok"
            /\ HintRight(h, script, iter[x]) =>
                  /\ last.val[1] <= more
                  /\ last.val[2] # NoHint => more <= last.val[2]
            /\ (h[1] <= Ahead(script, iter[x])
                   /\ (h[2] = NoHint \/ Ahead(script, iter[x]) <= h[2])) =>
                  /\ last.val[1] <= near
                  /\ last.val[2] # NoHint => near <= last.val[2]

C14_Witness ==
    /\ N = 2
    /\ script = <<SomeItem, NoneItem, SomeItem, SomeItem>>
    /\ num_init["orig"] = 1
    /\ iter["orig"] = 3
    /\ last = [op |-> "size_hint", id |-> "orig", res |-> "ok",
               val |-> <<1, 2>>, arg |-> <<1, 3>>]

\* The items a source that replays s has yielded when it stands at p, in order.
RECURSIVE Pulled(_, _)
Pulled(s, p) ==
    IF p <= 1 THEN <<>>
    ELSE IF p - 1 <= Len(s) /\ s[p - 1] = SomeItem
    THEN Append(Pulled(s, p - 1), p - 1)
    ELSE Pulled(s, p - 1)

\* C15: a next() that starts with num_init = f and returns a chunk pulls
\* exactly N - f values; a next() that returns None (or ends in the source's
\* panic) pulls the k values it stores and makes the one pull that yielded no
\* value, none after it; the values pulled are the source's next ones, in
\* order.  So the values that came into a live object's buffer number
\* N * (chunks returned) + num_init, and those of the object made by new()
\* are exactly the items the source has yielded.
C15_NoLookAhead ==
    /\ [](\A x \in Ids :
            life[x] = "live" =>
                Len(taken[x]) = N * Len(out[x]) + num_init[x])
    /\ [](taken["orig"] = Pulled(script, iter["orig"]))
    /\ [][\A x \in Ids :
            (last'.op = "next" /\ last'.id = x /\ life[x] = "live") =>
                LET k == Len(taken'[x]) - Len(taken[x])
                    d == iter'[x] - iter[x]
                IN  /\ SubSeq(taken'[x], 1, Len(taken[x])) = taken[x]
                    /\ SubSeq(taken'[x], Len(taken[x]) + 1, Len(taken'[x]))
                          = [j \in 1..k |-> iter[x] + j - 1]
                    /\ last'.res = "some" =>
                          k = N - num_init[x] /\ d = k
                    /\ last'.res # "some" =>
                          /\ num_init'[x] = num_init[x] + k
                          /\ num_init'[x] < N
                          /\ d = k + 1 \/ (d = k /\ iter'[x] > Len(script))]_vars

C15_Witness ==
    /\ N = 3
    /\ script = <<SomeItem, NoneItem, SomeItem, SomeItem>>
    /\ taken["orig"] = <<1, 3, 4>>
    /\ iter["orig"] = 5
    /\ last = [op |-> "next", id |-> "orig", res |-> "some", val |-> <<1, 3, 4>>]

\* C16: remainder() returns the values of slots 1..num_init in slot order,
\* all of them live, and a call of it changes neither num_init, nor a slot,
\* nor the source position, nor anything else a later next() depends on.
C16_RemainderObserver ==
    /\ [](last.op = "remainder" =>
            LET x == last.id
            IN  /\ Len(last.val) = num_init[x]
                /\ \A i \in 1..num_init[x] :
                      buf[x][i].init /\ last.val[i] = buf[x][i].val
                /\ Flatten(out[x]) \o last.val = taken[x])
    /\ [][last'.op = "remainder" =>
            /\ num_init' = num_init
            /\ buf' = buf
            /\ iter' = iter
            /\ out' = out
            /\ life' = life
            /\ \A x \in Ids :
                  life[x] = "live" =>
                      next(script, iter[x], buf[x], num_init[x])'
                          = next(script, iter[x], buf[x], num_init[x])]_vars

C16_Witness ==
    /\ N = 3
    /\ script = <<SomeItem, SomeItem, PanicItem>>
    /\ num_init["orig"] = 2
    /\ last = [op |-> "remainder", id |-> "orig", res |-> "ok", val |-> <<1, 2>>]

\* C17: for N >= 1 a live object never has num_init = N when control is with
\* the caller: num_init <= N - 1, remainder() is shorter than N, and neither
\* clone nor drop ever handles N buffered values.
C17_NeverFull ==
    N >= 1 =>
        \A x \in Ids :
            /\ life[x] = "live" => (num_init[x] <= N - 1 /\ Len(Rem(x)) < N)
            /\ Len(released[x]) < N
            /\ Cardinality(touched[x]) < N
            /\ (last.op = "clone" /\ x = "copy") => Len(taken[x]) < N

C17_Witness ==
    /\ N = 3
    /\ script = <<SomeItem, SomeItem, PanicItem>>
    /\ life["copy"] = "live" /\ num_init["copy"] = 2
    /\ life["orig"] = "dropped" /\ released["orig"] = <<1, 2>>

\* C18: values buffered when next() returned None stay buffered: a later
\* next() that completes a chunk returns the values that were buffered, in
\* order, followed by the N - num_init values it pulls, and no value that came
\* into the buffer is dropped or pulled again on the way.
C18_PrefixSurvivesNone ==
    /\ [](\A x \in Ids :
            (life[x] = "live" /\ exhausted[x]) =>
                /\ taken[x] = Flatten(out[x]) \o Rem(x)
                /\ NoDup(taken[x]))
    /\ [][\A x \in Ids :
            (/\ last'.op = "next" /\ last'.id = x /\ life[x] = "live"
             /\ exhausted[x] /\ last'.res = "some") =>
                /\ Len(Rem(x)) = num_init[x]
                /\ last'.val = Rem(x) \o SubSeq(taken'[x], Len(taken[x]) + 1,
                                                Len(taken'[x]))
                /\ Len(taken'[x]) - Len(taken[x]) = N - num_init[x]
                /\ out'[x] = Append(out[x], last'.val)]_vars

C18_Witness ==
    /\ N = 3
    /\ script = <<SomeItem, SomeItem, NoneItem, SomeItem>>
    /\ exhausted["orig"]
    /\ last = [op |-> "next", id |-> "orig", res |-> "some", val |-> <<1, 2, 4>>]

====
